---- MODULE Spec2Model ----
(***************************************************************************)
(* Model of src/api/fix-duplicates.py: the OpenAPI duplicate schema fixer. *)
(*                                                                         *)
(* A JSON value is a record [k, s, keys, e]:                               *)
(*   k = "str"  : a scalar, s its characters                               *)
(*   k = "list" : a sequence, e its elements in order                      *)
(*   k = "map"  : a dict, keys its keys in insertion order, e the values   *)
(* A string is the sequence of its characters, so that '.' in name,        *)
(* name.replace('.', '') and f"#/definitions/{name}" are computed on the   *)
(* characters as Python computes them.                                     *)
(***************************************************************************)
EXTENDS Integers, Sequences, FiniteSets, TLC

VARIABLES input, spec, duplicates, idx, type_array_fixes, output,
          final_duplicates, stdout, prev, run, pc

vars == <<input, spec, duplicates, idx, type_array_fixes, output,
          final_duplicates, stdout, prev, run, pc>>

(***************************************************************************)
(* Bounds of the model.                                                    *)
(***************************************************************************)
MaxDefs == 4
MaxTypes == 2
MaxRuns == 2

(***************************************************************************)
(* JSON values.                                                            *)
(***************************************************************************)
Str(s) == [k |-> "str", s |-> s, keys |-> <<>>, e |-> <<>>]
List(es) == [k |-> "list", s |-> <<>>, keys |-> <<>>, e |-> es]
Map(ks, es) == [k |-> "map", s |-> <<>>, keys |-> ks, e |-> es]

IsDict(obj) == obj.k = "map"
IsList(obj) == obj.k = "list"

EmptyDict == Map(<<>>, <<>>)
NoFile == [k |-> "nofile", s |-> <<>>, keys |-> <<>>, e |-> <<>>]

\* key in d
HasKey(d, key) == \E j \in 1..Len(d.keys) : d.keys[j] = key

\* d[key], for a key of d
Lookup(d, key) == d.e[CHOOSE j \in 1..Len(d.keys) : d.keys[j] = key]

\* d.get(key, {})
Get(d, key) == IF HasKey(d, key) THEN Lookup(d, key) ELSE EmptyDict

\* d[key] = value, for a key of d (the key keeps its position)
Store(d, key, value) ==
    Map(d.keys, [j \in 1..Len(d.keys) |-> IF d.keys[j] = key THEN value ELSE d.e[j]])

RECURSIVE Positions(_, _, _)
Positions(ks, key, j) ==
    IF j > Len(ks) THEN <<>>
    ELSE (IF ks[j] = key THEN <<>> ELSE <<j>>) \o Positions(ks, key, j + 1)

\* a del that compares the names without their dots
RECURSIVE PositionsDotless(_, _, _)
PositionsDotless(ks, key, j) ==
    IF j > Len(ks) THEN <<>>
    ELSE (IF SelectSeq(ks[j], LAMBDA c : c # ".") = SelectSeq(key, LAMBDA c : c # ".")
          THEN <<>> ELSE <<j>>) \o PositionsDotless(ks, key, j + 1)

DeleteDotless(d, key) ==
    LET keep == PositionsDotless(d.keys, key, 1)
    IN Map([j \in 1..Len(keep) |-> d.keys[keep[j]]],
           [j \in 1..Len(keep) |-> d.e[keep[j]]])

\* del d[key]
Delete(d, key) ==
    LET keep == Positions(d.keys, key, 1)
    IN Map([j \in 1..Len(keep) |-> d.keys[keep[j]]],
           [j \in 1..Len(keep) |-> d.e[keep[j]]])

(***************************************************************************)
(* The strings of the program.                                             *)
(***************************************************************************)
kRef == <<"$", "r", "e", "f">>
kType == <<"t", "y", "p", "e">>
kDefinitions == <<"d", "e", "f", "i", "n", "i", "t", "i", "o", "n", "s">>
RefPrefix == <<"#", "/">> \o kDefinitions \o <<"/">>
tString == <<"s", "t", "r", "i", "n", "g">>
tNumber == <<"n", "u", "m", "b", "e", "r">>
tInteger == <<"i", "n", "t", "e", "g", "e", "r">>

\* f"#/definitions/{name}"
RefTo(name) == RefPrefix \o name

\* '.' in name
HasDot(name) == \E j \in 1..Len(name) : name[j] = "."

NotDot(c) == c # "."

\* name.replace('.', '')
RemoveDots(name) == SelectSeq(name, NotDot)

(***************************************************************************)
(* find_duplicate_schemas(definitions)                                     *)
(***************************************************************************)
RECURSIVE find_from(_, _)

\* the detector without the test '.' in name
find_from_any_name(definitions, j) ==
    IF j > Len(definitions.keys) THEN <<>>
    ELSE LET name == definitions.keys[j]
             no_dot_name == RemoveDots(name)
         IN (IF HasKey(definitions, no_dot_name)
             THEN << <<name, no_dot_name>> >>
             ELSE <<>>) \o find_from(definitions, j + 1)

find_from(definitions, j) ==
    IF j > Len(definitions.keys) THEN <<>>
    ELSE LET name == definitions.keys[j]
             no_dot_name == RemoveDots(name)
         IN (IF HasDot(name) /\ HasKey(definitions, no_dot_name)
             THEN << <<name, no_dot_name>> >>
             ELSE <<>>) \o find_from(definitions, j + 1)

find_duplicate_schemas(definitions) == find_from(definitions, 1)

(***************************************************************************)
(* fix_schema_references(obj, old_ref, new_ref)                            *)
(***************************************************************************)
RECURSIVE fix_schema_references(_, _, _)

\* the rewriter without the walk into sequences
fix_schema_references_dicts_only(obj, old_ref, new_ref) ==
    IF IsDict(obj)
    THEN Map(obj.keys,
             [j \in 1..Len(obj.keys) |->
                 IF obj.keys[j] = kRef /\ obj.e[j] = Str(RefTo(old_ref))
                 THEN Str(RefTo(new_ref))
                 ELSE fix_schema_references(obj.e[j], old_ref, new_ref)])
    ELSE obj

\* value.startswith(prefix), for strings
StartsWith(value, prefix) ==
    /\ value.k = "str"
    /\ Len(value.s) >= Len(prefix)
    /\ SubSeq(value.s, 1, Len(prefix)) = prefix

\* the rewriter matching '#/definitions/<old>' as a prefix of the value
fix_schema_references_prefix(obj, old_ref, new_ref) ==
    IF IsDict(obj)
    THEN Map(obj.keys,
             [j \in 1..Len(obj.keys) |->
                 IF obj.keys[j] = kRef /\ StartsWith(obj.e[j], RefTo(old_ref))
                 THEN Str(RefTo(new_ref)
                          \o SubSeq(obj.e[j].s, Len(RefTo(old_ref)) + 1, Len(obj.e[j].s)))
                 ELSE fix_schema_references(obj.e[j], old_ref, new_ref)])
    ELSE IF IsList(obj)
    THEN List([j \in 1..Len(obj.e) |-> fix_schema_references(obj.e[j], old_ref, new_ref)])
    ELSE obj

fix_schema_references(obj, old_ref, new_ref) ==
    IF IsDict(obj)
    THEN Map(obj.keys,
             [j \in 1..Len(obj.keys) |->
                 IF obj.keys[j] = kRef /\ obj.e[j] = Str(RefTo(old_ref))
                 THEN Str(RefTo(new_ref))
                 ELSE fix_schema_references(obj.e[j], old_ref, new_ref)])
    ELSE IF IsList(obj)
    THEN List([j \in 1..Len(obj.e) |-> fix_schema_references(obj.e[j], old_ref, new_ref)])
    ELSE obj

(***************************************************************************)
(* fix_type_arrays(obj) and the number of replacements it counts           *)
(***************************************************************************)
\* x in value, for a list value
InList(value, x) == \E j \in 1..Len(value.e) : value.e[j] = Str(x)

\* the choice with 'integer' tried before 'number'
choose_type_integer_first(value) ==
    IF InList(value, tString) THEN Str(tString)
    ELSE IF InList(value, tInteger) THEN Str(tInteger)
    ELSE IF InList(value, tNumber) THEN Str(tNumber)
    ELSE value.e[1]

\* the choice that always takes the first element
choose_type_first_element(value) == value.e[1]

choose_type(value) ==
    IF InList(value, tString) THEN Str(tString)
    ELSE IF InList(value, tNumber) THEN Str(tNumber)
    ELSE IF InList(value, tInteger) THEN Str(tInteger)
    ELSE value.e[1]

RECURSIVE fix_type_arrays(_)
fix_type_arrays(obj) ==
    IF IsDict(obj)
    THEN Map(obj.keys,
             [j \in 1..Len(obj.keys) |->
                 IF obj.keys[j] = kType /\ IsList(obj.e[j])
                 THEN choose_type(obj.e[j])
                 ELSE fix_type_arrays(obj.e[j])])
    ELSE IF IsList(obj)
    THEN List([j \in 1..Len(obj.e) |-> fix_type_arrays(obj.e[j])])
    ELSE obj

RECURSIVE SumSeq(_)
SumSeq(ns) == IF ns = <<>> THEN 0 ELSE Head(ns) + SumSeq(Tail(ns))

RECURSIVE count_type_arrays(_)
count_type_arrays(obj) ==
    IF IsDict(obj)
    THEN SumSeq([j \in 1..Len(obj.keys) |->
                 IF obj.keys[j] = kType /\ IsList(obj.e[j])
                 THEN 1
                 ELSE count_type_arrays(obj.e[j])])
    ELSE IF IsList(obj)
    THEN SumSeq([j \in 1..Len(obj.e) |-> count_type_arrays(obj.e[j])])
    ELSE 0

(***************************************************************************)
(* The input documents (json.load, lines 108-109).  Definition names come  *)
(* from NamePool: "A.B" and "A.B." both lose their dots to "AB", "C.D"     *)
(* loses its dot to "CD".  A "type" field is a scalar, a non-empty         *)
(* sequence of scalars (a JSON Schema type array has at least one          *)
(* element; on an empty one value[0] of line 163 raises IndexError), or, a *)
(* property being itself named "type", a mapping.                          *)
(***************************************************************************)
nAdotB == <<"A", ".", "B">>
nAdotBdot == <<"A", ".", "B", ".">>
nAB == <<"A", "B">>
nCdotD == <<"C", ".", "D">>
nCD == <<"C", "D">>
NamePool == {nAdotB, nAdotBdot, nAB, nCdotD, nCD}

kPaths == <<"p", "a", "t", "h", "s">>
kItems == <<"i", "t", "e", "m", "s">>
kTitle == <<"t", "i", "t", "l", "e">>
kAllOf == <<"a", "l", "l", "O", "f">>
tBoolean == <<"b", "o", "o", "l", "e", "a", "n">>
tObject == <<"o", "b", "j", "e", "c", "t">>
TypeNames == {tString, tNumber, tInteger, tBoolean}

RefNode(s) == Map(<<kRef>>, <<Str(s)>>)
ObjectSchema == Map(<<kType>>, <<Str(tObject)>>)

IsInjective(ns) == \A a, b \in 1..Len(ns) : ns[a] = ns[b] => a = b

\* the key sequences of a definitions mapping
NameSeqs ==
    UNION {{ns \in [1..n -> NamePool] : IsInjective(ns)} : n \in 0..MaxDefs}

\* the non-empty type arrays
TypeArrays ==
    UNION {{List([j \in 1..n |-> Str(ts[j])]) : ts \in [1..n -> TypeNames]} : n \in 1..MaxTypes}

DefFrags ==
    { ObjectSchema,
      RefNode(RefTo(nAdotB)),
      RefNode(RefTo(nAdotBdot)),
      Map(<<kItems>>, <<List(<<RefNode(RefTo(nAB)), RefNode(RefTo(nAdotB))>>)>>),
      Map(<<kType, kTitle>>,
          <<List(<<Str(tInteger), Str(tNumber)>>), Str(RefTo(nAdotB))>>) }

Bodies ==
    { ObjectSchema,
      RefNode(RefTo(nAdotB)),
      Map(<<kItems, kTitle>>, <<RefNode(RefTo(nAdotBdot)), Str(RefTo(nAdotBdot))>>),
      List(<<Str(RefTo(nAdotB)), RefNode(RefTo(nCdotD)), RefNode(RefTo(nAdotBdot)),
             RefNode(RefTo(nAdotB))>>),
      Map(<<kAllOf, kTitle>>,
          <<List(<<RefNode(<<"x">> \o RefTo(nAdotB)), RefNode(RefTo(nAdotB)),
                   RefNode(RefTo(nAdotB) \o <<"x">>)>>),
            Str(RefTo(nAdotB))>>),
      Map(<<kItems, kType>>, <<RefNode(RefTo(nAB)), Str(tNumber)>>),
      Map(<<kType, kRef>>,
          <<Map(<<kType>>, <<List(<<Str(tBoolean), Str(tInteger)>>)>>),
            RefNode(RefTo(nAdotBdot))>>) }

\* documents that vary the definitions and the references
RefDocs ==
    { Map(<<kDefinitions, kPaths>>,
          <<Map(c[1], [j \in 1..Len(c[1]) |-> IF j = c[2] THEN c[3] ELSE ObjectSchema]),
            c[4]>>) :
      c \in {d \in NameSeqs \X (1..MaxDefs) \X DefFrags \X Bodies :
                d[2] <= Len(d[1]) \/ (d[2] = 1 /\ d[3] = ObjectSchema)} }

\* the places of a type array in a schema
TypePlaces(t) ==
    { Map(<<kType>>, <<t>>),
      Map(<<kItems>>, <<List(<<ObjectSchema, Map(<<kType, kTitle>>, <<t, Str(tString)>>)>>)>>),
      Map(<<kType>>, <<Map(<<kType>>, <<t>>)>>) }

\* documents that vary the type arrays, inside and outside definitions
TypeDocs ==
    UNION { UNION { { Map(<<kPaths, kDefinitions>>,
                          <<b, Map(<<nAdotB, nAB>>, <<ObjectSchema, ObjectSchema>>)>>),
                      Map(<<kDefinitions, kPaths>>,
                          <<Map(<<nAB>>, <<b>>), ObjectSchema>>) } :
                    b \in TypePlaces(t) } : t \in TypeArrays }

\* documents with no 'definitions' key
NoDefsDocs ==
    {Map(<<kPaths>>, <<b>>) : b \in Bodies}
        \cup UNION {{Map(<<kPaths>>, <<b>>) : b \in TypePlaces(t)} : t \in TypeArrays}

Documents == RefDocs \cup TypeDocs \cup NoDefsDocs

(***************************************************************************)
(* fix_openapi_duplicates(input_file, output_file), one action per stage.  *)
(* stdout holds one word per report the stage prints.  An exception ends   *)
(* the run at pc = "error" (the handler of lines 205-209).                 *)
(***************************************************************************)
\* the order Normalizer, Verifier, serialization
StageAfterVerifierFirst(stage) ==
    CASE stage = "loop" -> "normalize"
      [] stage = "normalize" -> "verify"
      [] stage = "verify" -> "write"
      [] stage = "write" -> "end"

\* the statement order of lines 145-195, once the loop over the pairs is done
StageAfter(stage) ==
    CASE stage = "loop" -> "normalize"
      [] stage = "normalize" -> "write"
      [] stage = "write" -> "verify"
      [] stage = "verify" -> "end"

Init ==
    /\ input \in Documents
    /\ spec = input
    /\ duplicates = <<>>
    /\ idx = 1
    /\ type_array_fixes = 0
    /\ output = NoFile
    /\ final_duplicates = <<>>
    /\ stdout = <<"loading">>
    /\ prev = input
    /\ run = 1
    /\ pc = "detect"

\* the detection with spec['definitions'] in place of spec.get('definitions', {})
DetectStrict ==
    /\ pc = "detect"
    /\ IF HasKey(spec, kDefinitions)
       THEN /\ duplicates' = find_duplicate_schemas(Lookup(spec, kDefinitions))
            /\ stdout' = stdout \o (IF duplicates' = <<>> THEN <<"no_duplicates">>
                                                        ELSE <<"found_pairs">>)
            /\ pc' = IF duplicates' = <<>> THEN StageAfter("loop") ELSE "rewrite"
       ELSE /\ pc' = "error"
            /\ UNCHANGED <<duplicates, stdout>>
    /\ idx' = 1
    /\ UNCHANGED <<input, spec, type_array_fixes, output, final_duplicates, prev, run>>

\* lines 111-121
Detect ==
    /\ pc = "detect"
    /\ duplicates' = find_duplicate_schemas(Get(spec, kDefinitions))
    /\ stdout' = stdout \o (IF duplicates' = <<>> THEN <<"no_duplicates">>
                                                ELSE <<"found_pairs">>)
    /\ pc' = IF duplicates' = <<>> THEN StageAfter("loop") ELSE "rewrite"
    /\ idx' = 1
    /\ UNCHANGED <<input, spec, type_array_fixes, output, final_duplicates, prev, run>>

\* lines 123-135: the Reference Rewriter on the current pair
Rewrite ==
    /\ pc = "rewrite"
    /\ prev' = spec
    /\ spec' = fix_schema_references(spec, duplicates[idx][1], duplicates[idx][2])
    /\ stdout' = stdout \o <<"processing">>
    /\ pc' = "prune"
    /\ UNCHANGED <<input, duplicates, idx, type_array_fixes, output, final_duplicates, run>>

\* the pruner deleting from the mapping read at line 111, which the rewritten
\* document no longer holds
PruneStale ==
    /\ pc = "prune"
    /\ spec' = spec
    /\ stdout' = stdout \o <<"removed">>
    /\ pc' = IF idx < Len(duplicates) THEN "rewrite" ELSE StageAfter("loop")
    /\ idx' = idx + 1
    /\ UNCHANGED <<input, duplicates, type_array_fixes, output, final_duplicates, prev, run>>

\* lines 137-143: the Definition Pruner on the current pair
Prune ==
    /\ pc = "prune"
    /\ LET dotted_name == duplicates[idx][1]
           definitions == Lookup(spec, kDefinitions)
       IN IF ~HasKey(spec, kDefinitions)
          THEN /\ pc' = "error"
               /\ UNCHANGED <<spec, stdout>>
          ELSE /\ IF HasKey(definitions, dotted_name)
                  THEN /\ spec' = Store(spec, kDefinitions, Delete(definitions, dotted_name))
                       /\ stdout' = stdout \o <<"removed">>
                  ELSE /\ spec' = spec
                       /\ stdout' = stdout \o <<"warning_not_found">>
               /\ pc' = IF idx < Len(duplicates) THEN "rewrite" ELSE StageAfter("loop")
    /\ idx' = idx + 1
    /\ UNCHANGED <<input, duplicates, type_array_fixes, output, final_duplicates, prev, run>>

\* lines 145-175: the Type Normalizer
Normalize ==
    /\ pc = "normalize"
    /\ prev' = spec
    /\ spec' = fix_type_arrays(spec)
    /\ type_array_fixes' = count_type_arrays(spec)
    /\ stdout' = stdout \o <<"fixing_type_arrays">>
    /\ pc' = StageAfter("normalize")
    /\ UNCHANGED <<input, duplicates, idx, output, final_duplicates, run>>

\* lines 177-183: serialization to the output file
WriteOutput ==
    /\ pc = "write"
    /\ output' = spec
    /\ stdout' = stdout \o <<"writing">>
    /\ pc' = StageAfter("write")
    /\ UNCHANGED <<input, spec, duplicates, idx, type_array_fixes, final_duplicates, prev, run>>

\* the Verifier without the test of line 186
VerifyAlways ==
    /\ pc = "verify"
    /\ final_duplicates' = find_duplicate_schemas(Get(spec, kDefinitions))
    /\ stdout' = stdout \o <<"verifying">>
                   \o (IF final_duplicates' # <<>> THEN <<"still_duplicates">>
                                                    ELSE <<"all_removed">>)
    /\ pc' = StageAfter("verify")
    /\ UNCHANGED <<input, spec, duplicates, idx, type_array_fixes, output, prev, run>>

\* lines 185-194: the Verifier
Verify ==
    /\ pc = "verify"
    /\ IF duplicates # <<>>
       THEN /\ final_duplicates' = find_duplicate_schemas(Get(spec, kDefinitions))
            /\ stdout' = stdout \o <<"verifying">>
                           \o (IF final_duplicates' # <<>> THEN <<"still_duplicates">>
                                                            ELSE <<"all_removed">>)
       ELSE UNCHANGED <<final_duplicates, stdout>>
    /\ pc' = StageAfter("verify")
    /\ UNCHANGED <<input, spec, duplicates, idx, type_array_fixes, output, prev, run>>

\* lines 197-209: the script is run again, on the file it wrote
Rerun ==
    /\ pc = "end"
    /\ run < MaxRuns
    /\ input' = output
    /\ spec' = output
    /\ duplicates' = <<>>
    /\ idx' = 1
    /\ type_array_fixes' = 0
    /\ output' = NoFile
    /\ final_duplicates' = <<>>
    /\ stdout' = <<"loading">>
    /\ prev' = output
    /\ run' = run + 1
    /\ pc' = "detect"

Next == Detect \/ Rewrite \/ Prune \/ Normalize \/ WriteOutput \/ Verify \/ Rerun

Spec == Init /\ [][Next]_vars

(***************************************************************************)
(* Vocabulary of the properties.                                           *)
(***************************************************************************)
Digits == <<"1", "2", "3", "4", "5", "6", "7", "8", "9">>

\* the path step into element j of a sequence
Index(j) == <<"[", Digits[j]>>

\* every mapping entry and sequence element of obj, at any depth, as
\* <<path of its parent, key or index, value>>
RECURSIVE Entries(_, _)
Entries(obj, path) ==
    IF IsDict(obj)
    THEN UNION {{<<path, obj.keys[j], obj.e[j]>>}
                   \cup Entries(obj.e[j], Append(path, obj.keys[j])) :
                j \in 1..Len(obj.keys)}
    ELSE IF IsList(obj)
    THEN UNION {{<<path, Index(j), obj.e[j]>>}
                   \cup Entries(obj.e[j], Append(path, Index(j))) :
                j \in 1..Len(obj.e)}
    ELSE {}

AllEntries(doc) == Entries(doc, <<>>)

\* the '$ref' nodes of doc, as <<path of the mapping, value>>
Refs(doc) == {<<x[1], x[3]>> : x \in {y \in AllEntries(doc) : y[2] = kRef}}

\* obj with every scalar blanked: the keys, lengths and nesting alone
RECURSIVE Skeleton(_)
Skeleton(obj) ==
    IF IsDict(obj) THEN Map(obj.keys, [j \in 1..Len(obj.keys) |-> Skeleton(obj.e[j])])
    ELSE IF IsList(obj) THEN List([j \in 1..Len(obj.e) |-> Skeleton(obj.e[j])])
    ELSE Str(<<>>)

\* name without its dots, character by character
RECURSIVE DotFree(_)
DotFree(name) ==
    IF name = <<>> THEN <<>>
    ELSE IF Head(name) = "." THEN DotFree(Tail(name))
    ELSE <<Head(name)>> \o DotFree(Tail(name))

ContainsDot(name) == "." \in {name[j] : j \in 1..Len(name)}

InputDefs == Get(input, kDefinitions)
SpecDefs == Get(spec, kDefinitions)
KeySet(d) == {d.keys[j] : j \in 1..Len(d.keys)}

\* the pairs the spec's data model defines on the input definitions
InputPairs ==
    {<<d, DotFree(d)>> : d \in {n \in KeySet(InputDefs) :
                                  ContainsDot(n) /\ DotFree(n) \in KeySet(InputDefs)}}

\* a path that lies inside a definition that a pair retires
InPruned(path) ==
    /\ Len(path) >= 2
    /\ path[1] = kDefinitions
    /\ \E pr \in InputPairs : path[2] = pr[1]

LoopDone == pc \in {"normalize", "write", "verify", "end"}
Words(w) == {j \in 1..Len(stdout) : stdout[j] = w}

\* C1: once every pair (D, P) of the input definitions is processed, D is no
\* key of definitions, P still is, no '$ref' of the document equals
\* '#/definitions/D', and every '$ref' node of the input that equalled it
\* (and is not inside a retired definition, which is gone) equals
\* '#/definitions/P' -- also when several dotted names share one plain name.
C1_ReferenceIntegrity ==
    LoopDone =>
        LET before == Refs(input)
            after == Refs(spec)
        IN \A pr \in InputPairs :
               /\ pr[1] \notin KeySet(SpecDefs)
               /\ pr[2] \in KeySet(SpecDefs)
               /\ \A r \in after : r[2] # Str(RefTo(pr[1]))
               /\ \A r \in before :
                      (r[2] = Str(RefTo(pr[1])) /\ ~InPruned(r[1]))
                          => <<r[1], Str(RefTo(pr[2]))>> \in after

C1_Witness ==
    /\ pc = "end"
    /\ Cardinality(InputPairs) >= 2
    /\ \A pr \in InputPairs : pr[2] = nAB
    /\ \E r \in Refs(input) : r[2] = Str(RefTo(nAdotBdot)) /\ ~InPruned(r[1])
    /\ \E r \in Refs(input) : r[2] = Str(RefTo(nAdotB)) /\ InPruned(r[1])
    /\ output = spec

\* C2: find_duplicate_schemas returns exactly one pair (name, name without
\* dots) per key that contains '.' and whose dot-free form is a key, no other
\* pair, in the order of the keys, and leaves definitions unchanged.
C2_DetectorExact ==
    pc # "detect" =>
        /\ {duplicates[j] : j \in 1..Len(duplicates)} = InputPairs
        /\ Len(duplicates) = Cardinality(InputPairs)
        /\ \A a, b \in 1..Len(duplicates) :
               a < b => \E x, y \in 1..Len(InputDefs.keys) :
                           /\ x < y
                           /\ InputDefs.keys[x] = duplicates[a][1]
                           /\ InputDefs.keys[y] = duplicates[b][1]
        /\ (stdout[Len(stdout)] \in {"found_pairs", "no_duplicates"} => spec = input)

C2_Witness ==
    /\ stdout[Len(stdout)] = "found_pairs"
    /\ InputDefs.keys = <<nAdotBdot, nAB, nAdotB>>
    /\ duplicates = << <<nAdotBdot, nAB>>, <<nAdotB, nAB>> >>


\* a sequence of scalars
IsScalarList(v) == IsList(v) /\ \A j \in 1..Len(v.e) : v.e[j].k = "str"
Holds(v, t) == Str(t) \in {v.e[j] : j \in 1..Len(v.e)}

\* the priority of the Type Normalizer, as section 4.4 words it
Preferred(v) ==
    IF Holds(v, tString) THEN Str(tString)
    ELSE IF Holds(v, tNumber) THEN Str(tNumber)
    ELSE IF Holds(v, tInteger) THEN Str(tInteger)
    ELSE Head(v.e)

TypeFields(doc) == {x \in AllEntries(doc) : x[2] = kType}

\* prev is the document before the Type Normalizer, spec the one after
JustNormalized == stdout[Len(stdout)] = "fixing_type_arrays"

IntegerAndNumber(v) ==
    IsScalarList(v) /\ Holds(v, tInteger) /\ Holds(v, tNumber) /\ ~Holds(v, tString)

\* C4 as stated: a type array with 'integer' and 'number' and no 'string',
\* such as ["integer","number"], becomes 'integer'.
C4_IntegerWins ==
    JustNormalized =>
        LET after == AllEntries(spec)
        IN \A x \in TypeFields(prev) :
               IntegerAndNumber(x[3]) => <<x[1], kType, Str(tInteger)>> \in after

\* C4 amended: a type array with 'integer' and 'number' and no 'string', such
\* as ["integer","number"], becomes 'number'; ["string","integer"] becomes
\* 'string' and ["boolean"] becomes 'boolean'.
C4_NumberWins ==
    JustNormalized =>
        LET after == AllEntries(spec)
        IN \A x \in TypeFields(prev) :
               /\ IntegerAndNumber(x[3]) => <<x[1], kType, Str(tNumber)>> \in after
               /\ x[3] = List(<<Str(tString), Str(tInteger)>>)
                      => <<x[1], kType, Str(tString)>> \in after
               /\ x[3] = List(<<Str(tBoolean)>>)
                      => <<x[1], kType, Str(tBoolean)>> \in after

C4_Witness ==
    /\ JustNormalized
    /\ \E x \in TypeFields(prev) :
           /\ x[3] = List(<<Str(tInteger), Str(tNumber)>>)
           /\ <<x[1], kType, Str(tNumber)>> \in AllEntries(spec)

\* C5: the run on the document an earlier run wrote finds no duplicate pair,
\* replaces no type array, and writes a document equal to its input.
C5_Idempotent ==
    run > 1 =>
        /\ pc # "error"
        /\ pc # "detect" => duplicates = <<>>
        /\ pc \in {"write", "verify", "end"} => type_array_fixes = 0 /\ spec = input
        /\ pc \in {"verify", "end"} => output = input

C5_Witness ==
    /\ run = 2
    /\ pc = "end"
    /\ output = input
    /\ \E x \in TypeFields(input) : x[3] = Str(tNumber)
    /\ \E r \in Refs(input) : r[2] = Str(RefTo(nAB)) /\ r[1] = <<kPaths>>
    /\ KeySet(InputDefs) = {nAB, nCdotD}

\* the pair the Reference Rewriter has just been applied to
JustRewritten == pc = "prune"
OldRef == Str(RefTo(duplicates[idx][1]))
NewRef == Str(RefTo(duplicates[idx][2]))

\* C6: fix_schema_references changes only the '$ref' values equal to
\* '#/definitions/<old>': every other '$ref', every other string (under
\* another key or in a sequence) stays, and keys, lengths and order are kept.
C6_RewriterFrame ==
    JustRewritten =>
        /\ Skeleton(spec) = Skeleton(prev)
        /\ LET after == AllEntries(spec)
           IN \A x \in AllEntries(prev) :
                  IF x[2] = kRef /\ x[3] = OldRef
                  THEN <<x[1], x[2], NewRef>> \in after
                  ELSE x[3].k = "str" => x \in after

C6_Witness ==
    /\ JustRewritten
    /\ duplicates[idx][1] = nAdotB
    /\ \E x \in AllEntries(prev) : x[2] = kRef /\ x[3] = OldRef
    /\ \E x \in AllEntries(spec) : x[2] = kRef /\ x[3] = Str(RefTo(nAdotBdot))
    /\ \E x \in AllEntries(spec) : x[2] = Index(1) /\ x[3] = OldRef

\* the stage that prints a word of stdout
Stage(w) ==
    CASE w = "loading" -> 0
      [] w \in {"found_pairs", "no_duplicates"} -> 1
      [] w \in {"processing", "removed", "warning_not_found"} -> 2
      [] w = "fixing_type_arrays" -> 3
      [] w = "writing" -> 4
      [] w \in {"verifying", "still_duplicates", "all_removed"} -> 5

\* the stages up to the Normalizer: Detector, then Rewriter and Pruner in
\* turn for each pair, then Normalizer
OrderedUpToNormalizer ==
    /\ \A a, b \in 1..Len(stdout) :
           (a < b /\ Stage(stdout[b]) <= 3) => Stage(stdout[a]) <= Stage(stdout[b])
    /\ \A a \in 1..Len(stdout) :
           /\ stdout[a] = "processing" =>
                  (a + 1 <= Len(stdout) => Stage(stdout[a + 1]) = 2 /\ stdout[a + 1] # "processing")
           /\ (Stage(stdout[a]) = 2 /\ stdout[a] # "processing") => stdout[a - 1] = "processing"
    /\ pc \in {"write", "verify", "end"} => Words("fixing_type_arrays") # {}

\* C7 as stated: Detector, Rewriter and Pruner per pair, Normalizer, then the
\* Verifier, then serialization: the re-detection precedes the write.
C7_VerifyBeforeWrite ==
    /\ OrderedUpToNormalizer
    /\ \A a \in Words("verifying") : output = NoFile /\ \A b \in Words("writing") : a < b

\* C7 amended: Detector, Rewriter and Pruner per pair, Normalizer, then
\* serialization, then (when the first detection found a pair) the Verifier:
\* the re-detection happens after the document is written.
C7_WriteBeforeVerify ==
    /\ OrderedUpToNormalizer
    /\ \A a \in Words("writing") : \A b \in Words("fixing_type_arrays") : b < a
    /\ \A a \in Words("verifying") :
           /\ output = spec
           /\ \E b \in Words("writing") : b < a
           /\ \E b \in Words("fixing_type_arrays") : b < a

C7_Witness ==
    /\ pc = "end"
    /\ Len(duplicates) = 2
    /\ Words("verifying") # {}
    /\ type_array_fixes > 0

Outcomes == Words("still_duplicates") \cup Words("all_removed")

\* C8 as stated: every run that reaches the end re-detects on the final
\* definitions and reports exactly one outcome, whether or not the first
\* detection found a pair.
C8_AlwaysVerifies ==
    pc = "end" => Cardinality(Outcomes) = 1 /\ Words("verifying") # {}

\* C8 amended: a run that reaches the end and whose first detection found a
\* pair re-detects on the final definitions and reports exactly one outcome;
\* a run whose first detection found none re-detects nothing and reports none.
C8_VerifiesWhenPairs ==
    pc = "end" =>
        IF InputPairs # {}
        THEN /\ Cardinality(Outcomes) = 1
             /\ Cardinality(Words("verifying")) = 1
             /\ (Words("all_removed") # {}) <=>
                    (\A n \in KeySet(SpecDefs) : ~(ContainsDot(n) /\ DotFree(n) \in KeySet(SpecDefs)))
        ELSE Outcomes = {} /\ Words("verifying") = {}

C8_Witness ==
    /\ pc = "end"
    /\ InputPairs = {}
    /\ Outcomes = {}
    /\ nCdotD \in KeySet(SpecDefs)

NoDefinitions == ~HasKey(input, kDefinitions)

\* C9: with no 'definitions' key in the input the run raises no error, finds
\* no pair, still normalizes the type arrays of the whole document, writes
\* the output, and the output has no 'definitions' key.
C9_MissingDefinitions ==
    NoDefinitions =>
        /\ pc # "error"
        /\ pc # "detect" => duplicates = <<>> /\ Words("no_duplicates") # {}
        /\ Words("processing") = {}
        /\ pc \in {"write", "verify", "end"} =>
               /\ \A x \in TypeFields(spec) : ~IsList(x[3])
               /\ LET after == AllEntries(spec)
                  IN \A x \in TypeFields(input) :
                         IsScalarList(x[3]) => <<x[1], kType, Preferred(x[3])>> \in after
               /\ Skeleton(spec).keys = Skeleton(input).keys
        /\ pc \in {"verify", "end"} => output = spec /\ ~HasKey(output, kDefinitions)

C9_Witness ==
    /\ NoDefinitions
    /\ run = 1
    /\ pc = "end"
    /\ type_array_fixes = 1
    /\ output # input
    /\ ~HasKey(output, kDefinitions)

\* C10: when a pair (D, P) is pruned D is still a key of definitions, so the
\* warning branch is never taken; no D is listed twice and exactly one
\* definition is deleted per pair.
C10_PrunerFindsKey ==
    /\ Words("warning_not_found") = {}
    /\ pc # "error"
    /\ \A a, b \in 1..Len(duplicates) : duplicates[a][1] = duplicates[b][1] => a = b
    /\ pc = "prune" => HasKey(spec, kDefinitions) /\ duplicates[idx][1] \in KeySet(SpecDefs)
    /\ Len(SpecDefs.keys) + Cardinality(Words("removed")) = Len(InputDefs.keys)

C10_Witness ==
    /\ pc = "prune"
    /\ idx = 2
    /\ duplicates[1][2] = duplicates[2][2]
    /\ Len(SpecDefs.keys) = 2

====
